---- MODULE Spec2Model ----
(***************************************************************************)
(* Model of the roleplay platform's session subsystem: one rp_sessions row *)
(* with its rp_session_viewers, rp_session_messages and rp_session_reads   *)
(* rows, one dm_threads row with its dm_messages and dm_thread_reads rows, *)
(* and the browser pages (session page, DM thread page, inbox pages) that  *)
(* the users have open.                                                    *)
(*                                                                         *)
(* Granularity.  A page handler is one action, with the database requests  *)
(* it awaits.  A request the page does not await (the viewer delete of the *)
(* effect cleanup) and the viewer upsert / heartbeat are requests in       *)
(* flight, processed by the database in any order.  A realtime change is   *)
(* queued per subscribed page and handled by a later action.  The trigger  *)
(* function update_session_max_viewers runs as two steps of the writing    *)
(* transaction, its reads and then its UPDATE (READ COMMITTED).            *)
(*                                                                         *)
(* Time.  The clock counts minutes.  Realtime events, the inactivity check *)
(* and due timeouts are handled within the minute in which they are due.   *)
(***************************************************************************)
EXTENDS Integers, Sequences, FiniteSets, TLC

\* ------------------------------------------------------------------ bounds
NumOthers == 1          \* users that are not participants of the session
MaxInflight == 1        \* viewer requests of one kind in flight per user
MaxEvents == 1          \* undelivered realtime changes per page and channel
MaxPages == 2           \* session pages open at the same time
MaxVisits == 1          \* visits of the session page per user
MaxMessages == 3        \* rows of rp_session_messages
MaxTime == 15           \* minutes on the clock
MaxReadTime == 3        \* minutes on the clock where reminders are left out
MaxOps == 4             \* operations started by users (open, leave, send, ...)
MaxThreads == 3         \* rows of dm_threads
MaxSessions == 2        \* rows of rp_sessions besides the session of the pages
MaxRows == 2            \* rows of rp_session_messages in those sessions
MaxAge == 5             \* last_seen ages are counted up to this many ticks

\* ------------------------------------------------------------------ users
user_a == 1
user_b == 2
Participants == {user_a, user_b}
Users == 1..(2 + NumOthers)

\* auth.uid() = user_a OR auth.uid() = user_b
IsParticipant(u) == u = user_a \/ u = user_b

\* loadViewers: active viewers were seen in the last 2 minutes; the heartbeat
\* period (30 s) is one tick, so 2 minutes are StaleTicks ticks.
StaleTicks == 4

VARIABLES
  is_public,          \* rp_sessions.is_public
  max_viewers,        \* rp_sessions.max_viewers
  rp_session_viewers, \* users with a committed viewer row
  last_seen_age,      \* ticks since the row's last_seen, for a user on the page
  vtx,                \* per user: position of the viewer statement in progress
  vreq,               \* per user: viewer requests in flight
  vpage,              \* per user: viewer effect mounted on the session page
  hbLive,             \* per user: heartbeat interval of the current effect run
  sessEvents,         \* per page: undelivered UPDATE events of rp_sessions
  joined,             \* per user: join upsert completed, page not left since
  visits              \* per user: visits of the session page so far

VARIABLES
  now,                \* the clock, in minutes
  rp_sessions,        \* the session row: status, is_active, last_message_at,
                      \* reminder_sent_at
  rp_session_messages,\* the session's messages in insertion order
  rp_session_reads,   \* per user: last_read_at of the session, or None
  page,               \* per user: the session page is open and loaded
  session,            \* per page: the `session` state (copy of the row)
  isPublicView,       \* per page: the isPublicView state
  nextMsg,            \* per page: next message whose INSERT event is undelivered
  sessPending,        \* per page: an UPDATE event of rp_sessions is undelivered
  inactivityReminder, \* per page: the inactivityReminder banner is set
  reminderTimers,     \* per page: deadlines of the 10-minute banner timeouts
  checked,            \* per page: checkInactivity ran since the last change
  ops                 \* operations started by users so far

sessionVarsNoOps == <<now, rp_sessions, rp_session_messages, rp_session_reads,
                      page, session, isPublicView, nextMsg, sessPending,
                      inactivityReminder, reminderTimers, checked>>

sessionVars == <<sessionVarsNoOps, ops>>

VARIABLES
  dm_messages,          \* the DM thread's messages in insertion order
  dm_thread_reads,      \* per user: last_read_at of the thread, or None
  dmPage,               \* per user: the DM thread page is open and loaded
  dmNext,               \* per page: next DM whose INSERT event is undelivered
  sessions_unread_count,\* per user: unread_count shown by the sessions page
  threads_unread_count  \* per user: unread_count shown by the DM inbox

dmVars == <<dm_messages, dm_thread_reads, dmPage, dmNext,
            sessions_unread_count, threads_unread_count>>

VARIABLES
  dm_threads,           \* the rows of dm_threads, oldest first
  dmCall,               \* per client: its call of openDmWith
  other_sessions,       \* the other rows of rp_sessions, oldest first
  watchSessions,        \* per user: the "Sessions to Watch" list shown
  other_messages        \* the rows of rp_session_messages of the other sessions

threadVars == <<dm_threads, dmCall>>
watchVars == <<other_sessions, watchSessions>>
policyVars == <<other_messages>>
dbVars == <<threadVars, watchVars, policyVars>>

viewerVars == <<is_public, max_viewers, rp_session_viewers, last_seen_age, vtx,
                vreq, vpage, hbLive, sessEvents, joined, visits>>

vars == <<viewerVars, sessionVars, dmVars, dbVars>>

\* ------------------------------------------------------- viewer requests
NoReq == [upsertCur |-> 0, upsertStale |-> 0, heartbeat |-> 0, delete |-> 0]
IdleTx == [pc |-> "idle", cur |-> FALSE, count |-> 0, max |-> 0]

\* RLS "rp_sessions_update_participants": USING (uid = user_a OR uid = user_b).
\* The trigger function is SECURITY INVOKER, so its UPDATE of rp_sessions is
\* filtered by this policy: a row that fails USING is silently not updated.
rp_sessions_update_participants(u) == IsParticipant(u)

\* Realtime: an UPDATE of rp_sessions reaches every page subscribed to
\* session:<id> (page.tsx 388-402); the queue is capped at MaxEvents.
Broadcast(ev) ==
  [p \in Users |-> IF vpage[p] /\ ev[p] < MaxEvents THEN ev[p] + 1 ELSE ev[p]]

InitViewers ==
  /\ is_public \in BOOLEAN
  /\ max_viewers = 0
  /\ rp_session_viewers = {}
  /\ last_seen_age = [u \in Users |-> 0]
  /\ vtx = [u \in Users |-> IdleTx]
  /\ vreq = [u \in Users |-> NoReq]
  /\ vpage = [u \in Users |-> FALSE]
  /\ hbLive = [u \in Users |-> FALSE]
  /\ sessEvents = [u \in Users |-> 0]
  /\ joined = [u \in Users |-> FALSE]
  /\ visits = [u \in Users |-> 0]

\* The viewer effect runs: loadViewers(); trackViewer() issues the upsert.
\* An upsert of an earlier run that is still in flight belongs to a closure
\* whose `mounted` is false.
trackViewer(u) ==
  /\ UNCHANGED <<sessionVars, dmVars, dbVars>>
  /\ is_public
  /\ ~vpage[u]
  /\ vreq[u].upsertCur = 0
  /\ visits[u] < MaxVisits
  /\ Cardinality({p \in Users : vpage[p]}) < MaxPages
  /\ visits' = [visits EXCEPT ![u] = visits[u] + 1]
  /\ vpage' = [vpage EXCEPT ![u] = TRUE]
  /\ vreq' = [vreq EXCEPT ![u].upsertCur = 1]
  /\ UNCHANGED <<is_public, max_viewers, rp_session_viewers, last_seen_age, vtx,
                 hbLive, sessEvents, joined>>

\* Cleanup of the viewer effect: stop the heartbeat, fire the delete and do
\* not wait for it.
CleanupReq(r) ==
  [r EXCEPT !.delete = r.delete + 1,
            !.upsertStale = r.upsertStale + r.upsertCur,
            !.upsertCur = 0]

CleanupGuard(u) ==
  /\ vreq[u].delete < MaxInflight
  /\ vreq[u].upsertStale + vreq[u].upsertCur <= MaxInflight

\* The user leaves the page: the effect cleanup runs, channels are removed.
ViewerLeave(u) ==
  /\ UNCHANGED <<sessionVars, dmVars, dbVars>>
  /\ vpage[u]
  /\ CleanupGuard(u)
  /\ vpage' = [vpage EXCEPT ![u] = FALSE]
  /\ vreq' = [vreq EXCEPT ![u] = CleanupReq(vreq[u])]
  /\ vtx' = [vtx EXCEPT ![u].cur = FALSE]
  /\ hbLive' = [hbLive EXCEPT ![u] = FALSE]
  /\ sessEvents' = [sessEvents EXCEPT ![u] = 0]
  /\ joined' = [joined EXCEPT ![u] = FALSE]
  /\ last_seen_age' = [last_seen_age EXCEPT ![u] = 0]
  /\ UNCHANGED <<visits, is_public, max_viewers, rp_session_viewers>>

\* The page handles an UPDATE of rp_sessions: setSession(payload.new) gives
\* `session` a new identity, and the viewer effect, which depends on
\* [sessionId, session, me], is cleaned up and run again.
SessionUpdateEvent(u) ==
  /\ UNCHANGED <<sessionVars, dmVars, dbVars>>
  /\ vpage[u]
  /\ sessEvents[u] > 0
  /\ CleanupGuard(u)
  /\ sessEvents' = [sessEvents EXCEPT ![u] = sessEvents[u] - 1]
  /\ vreq' = [vreq EXCEPT ![u] = [CleanupReq(vreq[u]) EXCEPT !.upsertCur = 1]]
  /\ vtx' = [vtx EXCEPT ![u].cur = FALSE]
  /\ hbLive' = [hbLive EXCEPT ![u] = FALSE]
  /\ UNCHANGED <<visits, is_public, max_viewers, rp_session_viewers, last_seen_age,
                 vpage, joined>>

\* ------------------------------------------------ database: viewer rows
\* DELETE ... WHERE session_id = .. AND user_id = me.  No trigger is defined
\* for DELETE.  Statements on the same row wait for each other.
ViewerDelete(u) ==
  /\ UNCHANGED <<sessionVars, dmVars, dbVars>>
  /\ vtx[u].pc = "idle"
  /\ vreq[u].delete > 0
  /\ vreq' = [vreq EXCEPT ![u].delete = vreq[u].delete - 1]
  /\ rp_session_viewers' = rp_session_viewers \ {u}
  /\ last_seen_age' = [last_seen_age EXCEPT ![u] = 0]
  /\ UNCHANGED <<visits, is_public, max_viewers, vtx, vpage, hbLive, sessEvents, joined>>

\* UPDATE of a row that does not exist: no row, no trigger.
HeartbeatNoRow(u) ==
  /\ UNCHANGED <<sessionVars, dmVars, dbVars>>
  /\ vtx[u].pc = "idle"
  /\ vreq[u].heartbeat > 0
  /\ u \notin rp_session_viewers
  /\ vreq' = [vreq EXCEPT ![u].heartbeat = vreq[u].heartbeat - 1]
  /\ UNCHANGED <<visits, is_public, max_viewers, rp_session_viewers, last_seen_age, vtx,
                 vpage, hbLive, sessEvents, joined>>

\* SELECT COUNT( * ) FROM rp_session_viewers WHERE session_id = session_uuid:
\* the committed rows and the row this statement wrote.
current_viewer_count(u) == Cardinality(rp_session_viewers \cup {u})

\* The statement writes its row (INSERT, ON CONFLICT UPDATE, or the heartbeat
\* UPDATE of an existing row; last_seen always changes, so the UPDATE trigger's
\* WHEN holds) and the trigger function reads the count and max_viewers.
ViewerWrite(u, k) ==
  /\ UNCHANGED <<sessionVars, dmVars, dbVars>>
  /\ vtx[u].pc = "idle"
  /\ vreq[u][k] > 0
  /\ k = "heartbeat" => u \in rp_session_viewers
  /\ vreq' = [vreq EXCEPT ![u][k] = vreq[u][k] - 1]
  /\ vtx' = [vtx EXCEPT ![u] = [pc |-> "update", cur |-> (k = "upsertCur"),
                                count |-> current_viewer_count(u),
                                max |-> max_viewers]]
  /\ UNCHANGED <<visits, is_public, max_viewers, rp_session_viewers, last_seen_age,
                 vpage, hbLive, sessEvents, joined>>

\* IF current_viewer_count > current_max_viewers THEN UPDATE rp_sessions SET
\* max_viewers = current_viewer_count; then the statement commits and the
\* page that awaited the upsert installs its heartbeat interval.
update_session_max_viewers(u) ==
  /\ UNCHANGED <<sessionVars, dmVars, dbVars>>
  /\ vtx[u].pc = "update"
  /\ LET raise == vtx[u].count > vtx[u].max /\ rp_sessions_update_participants(u)
     IN /\ max_viewers' = IF raise THEN vtx[u].count ELSE max_viewers
        /\ sessEvents' = IF raise THEN Broadcast(sessEvents) ELSE sessEvents
  /\ rp_session_viewers' = rp_session_viewers \cup {u}
  /\ last_seen_age' = [last_seen_age EXCEPT ![u] = 0]
  /\ vtx' = [vtx EXCEPT ![u] = IdleTx]
  /\ IF vtx[u].cur /\ vpage[u]
       THEN /\ hbLive' = [hbLive EXCEPT ![u] = TRUE]
            /\ joined' = [joined EXCEPT ![u] = TRUE]
       ELSE UNCHANGED <<hbLive, joined>>
  /\ UNCHANGED <<visits, is_public, vreq, vpage>>

\* Thirty seconds pass and the interval of every mounted trackViewer fires:
\* update last_seen where session_id = sessionId and user_id = me.  Requests
\* and events are handled well within the 30 seconds.
ViewerQuiet ==
  \A u \in Users : vtx[u].pc = "idle" /\ vreq[u] = NoReq /\ sessEvents[u] = 0

HeartbeatTick ==
  /\ UNCHANGED <<sessionVars, dmVars, dbVars>>
  /\ ViewerQuiet
  /\ \E u \in Users : vpage[u] \/ u \in rp_session_viewers
  /\ last_seen_age' = [u \in Users |->
        IF joined[u] /\ u \in rp_session_viewers /\ last_seen_age[u] < MaxAge
          THEN last_seen_age[u] + 1 ELSE last_seen_age[u]]
  /\ vreq' = [u \in Users |->
        IF vpage[u] /\ hbLive[u] THEN [vreq[u] EXCEPT !.heartbeat = 1] ELSE vreq[u]]
  /\ UNCHANGED <<visits, is_public, max_viewers, rp_session_viewers, vtx, vpage,
                 hbLive, sessEvents, joined>>

NextViewers ==
  \/ \E u \in Users : trackViewer(u)
  \/ \E u \in Users : ViewerLeave(u)
  \/ \E u \in Users : SessionUpdateEvent(u)
  \/ \E u \in Users : ViewerDelete(u)
  \/ \E u \in Users : HeartbeatNoRow(u)
  \/ \E u \in Users, k \in {"upsertCur", "upsertStale", "heartbeat"} : ViewerWrite(u, k)
  \/ \E u \in Users : update_session_max_viewers(u)
  \/ HeartbeatTick

\* ------------------------------------------------------- the session page
None == -1

\* page.tsx 92, 95, 142: 5 minutes of inactivity, a reminder at most once an
\* hour, the banner cleared after 10 minutes.
InactivityMinutes == 5
ReminderWindowMinutes == 60
BannerMinutes == 10

NewSession == [status |-> "active", is_active |-> TRUE,
               last_message_at |-> None, reminder_sent_at |-> None]

InitSession ==
  /\ now = 0
  /\ rp_sessions = NewSession
  /\ rp_session_messages = <<>>
  /\ rp_session_reads = [u \in Users |-> None]
  /\ page = [u \in Users |-> FALSE]
  /\ session = [u \in Users |-> NewSession]
  /\ isPublicView = [u \in Users |-> FALSE]
  /\ nextMsg = [u \in Users |-> 1]
  /\ sessPending = [u \in Users |-> FALSE]
  /\ inactivityReminder = [u \in Users |-> FALSE]
  /\ reminderTimers = [u \in Users |-> {}]
  /\ checked = [u \in Users |-> FALSE]
  /\ ops = 0

\* RLS "rp_session_messages_insert_sender": auth.uid() = sender_id and the
\* sender is user_a or user_b of the session.  Nothing else is checked.
rp_session_messages_insert_sender(uid, sender) ==
  uid = sender /\ IsParticipant(uid)

\* An UPDATE of rp_sessions is announced to every open page.  Undelivered
\* UPDATE events are coalesced: the page applies the newest payload.
NotifySession == [p \in Users |-> page[p]]

\* load(): the session row is read; a user who is not a participant gets the
\* public view of a public session and an error otherwise; the messages are
\* read and, when there are any, marked as read; the channels are subscribed.
load(p) ==
  /\ ops < MaxOps /\ ops' = ops + 1
  /\ ~page[p]
  /\ Cardinality({q \in Users : page[q]}) < MaxPages
  /\ IsParticipant(p) \/ is_public
  /\ page' = [page EXCEPT ![p] = TRUE]
  /\ session' = [session EXCEPT ![p] = rp_sessions]
  /\ isPublicView' = [isPublicView EXCEPT ![p] = ~IsParticipant(p) /\ is_public]
  /\ nextMsg' = [nextMsg EXCEPT ![p] = Len(rp_session_messages) + 1]
  /\ rp_session_reads' = IF Len(rp_session_messages) > 0
                           THEN [rp_session_reads EXCEPT ![p] = now]
                           ELSE rp_session_reads
  /\ checked' = [checked EXCEPT ![p] = FALSE]
  /\ UNCHANGED <<now, rp_sessions, rp_session_messages, sessPending,
                 inactivityReminder, reminderTimers>>
  /\ UNCHANGED <<viewerVars, dmVars, dbVars>>

\* The user leaves the session page: channels removed, timers cleared.
leave(p) ==
  /\ ops < MaxOps /\ ops' = ops + 1
  /\ page[p]
  /\ page' = [page EXCEPT ![p] = FALSE]
  /\ session' = [session EXCEPT ![p] = NewSession]
  /\ isPublicView' = [isPublicView EXCEPT ![p] = FALSE]
  /\ nextMsg' = [nextMsg EXCEPT ![p] = 1]
  /\ sessPending' = [sessPending EXCEPT ![p] = FALSE]
  /\ inactivityReminder' = [inactivityReminder EXCEPT ![p] = FALSE]
  /\ reminderTimers' = [reminderTimers EXCEPT ![p] = {}]
  /\ checked' = [checked EXCEPT ![p] = FALSE]
  /\ UNCHANGED <<now, rp_sessions, rp_session_messages, rp_session_reads>>
  /\ UNCHANGED <<viewerVars, dmVars, dbVars>>

\* send(): refused when the page's `session` is closed, or paused and the
\* message is narration.  The insert passes the RLS policy; the trigger
\* calculate_response_time sets last_message_at; the sender's read record,
\* last_message_at and reminder_sent_at are updated.
send(p, type) ==
  /\ ops < MaxOps /\ ops' = ops + 1
  /\ page[p] /\ ~isPublicView[p]
  /\ Len(rp_session_messages) < MaxMessages
  /\ session[p].status # "closed"
  /\ ~(type = "narration" /\ ~session[p].is_active)
  /\ rp_session_messages_insert_sender(p, p)
  /\ rp_session_messages' = Append(rp_session_messages,
        [sender_id |-> p, message_type |-> type, created_at |-> now,
         body |-> "text"])
  /\ rp_session_reads' = [rp_session_reads EXCEPT ![p] = now]
  /\ rp_sessions' = [rp_sessions EXCEPT !.last_message_at = now,
                                        !.reminder_sent_at = None]
  /\ session' = [session EXCEPT ![p].last_message_at = now,
                                ![p].reminder_sent_at = None]
  /\ inactivityReminder' = [inactivityReminder EXCEPT ![p] = FALSE]
  /\ sessPending' = NotifySession
  /\ checked' = [checked EXCEPT ![p] = FALSE]
  /\ UNCHANGED <<now, page, isPublicView, nextMsg, reminderTimers>>
  /\ UNCHANGED <<viewerVars, dmVars, dbVars>>

\* The handler of an INSERT on rp_session_messages: the message is appended
\* to the page's list and marked as read, the banner is cleared,
\* reminder_sent_at is cleared in the database (an UPDATE that RLS lets only
\* a participant make) and in the page's `session`.
messageEvent(p) ==
  /\ UNCHANGED ops
  /\ page[p]
  /\ nextMsg[p] <= Len(rp_session_messages)
  /\ nextMsg' = [nextMsg EXCEPT ![p] = nextMsg[p] + 1]
  /\ rp_session_reads' = [rp_session_reads EXCEPT ![p] = now]
  /\ inactivityReminder' = [inactivityReminder EXCEPT ![p] = FALSE]
  /\ IF rp_sessions_update_participants(p)
       THEN /\ rp_sessions' = [rp_sessions EXCEPT !.reminder_sent_at = None]
            /\ sessPending' = NotifySession
       ELSE UNCHANGED <<rp_sessions, sessPending>>
  /\ session' = [session EXCEPT
        ![p].reminder_sent_at = None,
        ![p].last_message_at = rp_session_messages[nextMsg[p]].created_at]
  /\ checked' = [checked EXCEPT ![p] = FALSE]
  /\ UNCHANGED <<now, rp_session_messages, page, isPublicView, reminderTimers>>
  /\ UNCHANGED <<viewerVars, dmVars, dbVars>>

\* The handler of an UPDATE on rp_sessions: setSession(payload.new).
sessionEvent(p) ==
  /\ UNCHANGED ops
  /\ page[p]
  /\ sessPending[p]
  /\ sessPending' = [sessPending EXCEPT ![p] = FALSE]
  /\ session' = [session EXCEPT ![p] = rp_sessions]
  /\ checked' = [checked EXCEPT ![p] = FALSE]
  /\ UNCHANGED <<now, rp_sessions, rp_session_messages, rp_session_reads, page,
                 isPublicView, nextMsg, inactivityReminder, reminderTimers>>
  /\ UNCHANGED <<viewerVars, dmVars, dbVars>>

\* toggleSessionActive(): is_active := not session.is_active.
toggleSessionActive(p) ==
  /\ ops < MaxOps /\ ops' = ops + 1
  /\ page[p] /\ ~isPublicView[p]
  /\ session[p].status # "closed"
  /\ rp_sessions_update_participants(p)
  /\ rp_sessions' = [rp_sessions EXCEPT !.is_active = ~session[p].is_active]
  /\ session' = [session EXCEPT ![p].is_active = ~session[p].is_active]
  /\ sessPending' = NotifySession
  /\ checked' = [checked EXCEPT ![p] = FALSE]
  /\ UNCHANGED <<now, rp_session_messages, rp_session_reads, page, isPublicView,
                 nextMsg, inactivityReminder, reminderTimers>>
  /\ UNCHANGED <<viewerVars, dmVars, dbVars>>

\* closeSession(): status := closed, is_active := false.
closeSession(p) ==
  /\ ops < MaxOps /\ ops' = ops + 1
  /\ page[p] /\ ~isPublicView[p]
  /\ session[p].status # "closed"
  /\ rp_sessions_update_participants(p)
  /\ rp_sessions' = [rp_sessions EXCEPT !.status = "closed", !.is_active = FALSE]
  /\ session' = [session EXCEPT ![p].status = "closed", ![p].is_active = FALSE]
  /\ sessPending' = NotifySession
  /\ checked' = [checked EXCEPT ![p] = FALSE]
  /\ UNCHANGED <<now, rp_session_messages, rp_session_reads, page, isPublicView,
                 nextMsg, inactivityReminder, reminderTimers>>
  /\ UNCHANGED <<viewerVars, dmVars, dbVars>>

\* The decision with "more than 5 minutes" in place of "5 minutes or more".
shouldSendReminderLate(p) ==
  /\ session[p].last_message_at # None
  /\ now - session[p].last_message_at > InactivityMinutes
  /\ ~inactivityReminder[p]
  /\ \/ session[p].reminder_sent_at = None
     \/ now - session[p].reminder_sent_at > ReminderWindowMinutes

\* checkInactivity decides on the page's `session` and banner.
shouldSendReminder(p) ==
  /\ session[p].last_message_at # None
  /\ now - session[p].last_message_at >= InactivityMinutes
  /\ ~inactivityReminder[p]
  /\ \/ session[p].reminder_sent_at = None
     \/ now - session[p].reminder_sent_at > ReminderWindowMinutes

\* sendInactivityReminder(): the reminder is inserted as an OOC message of
\* the page's user; when the insert is accepted, reminder_sent_at is set, the
\* banner is shown and its 10-minute timeout is started.
sendInactivityReminder(p) ==
  IF rp_session_messages_insert_sender(p, p)
    THEN /\ rp_session_messages' = Append(rp_session_messages,
              [sender_id |-> p, message_type |-> "ooc", created_at |-> now,
               body |-> "reminder"])
         /\ rp_sessions' = [rp_sessions EXCEPT !.last_message_at = now,
                                               !.reminder_sent_at = now]
         /\ sessPending' = NotifySession
         /\ inactivityReminder' = [inactivityReminder EXCEPT ![p] = TRUE]
         /\ reminderTimers' = [reminderTimers EXCEPT
                                 ![p] = reminderTimers[p] \cup {now + BannerMinutes}]
    ELSE UNCHANGED <<rp_session_messages, rp_sessions, sessPending,
                     inactivityReminder, reminderTimers>>

\* The inactivity effect: it runs when session, me or the banner changed, and
\* every minute; it does nothing while the page's `session` is paused.
checkInactivity(p) ==
  /\ UNCHANGED ops
  /\ page[p]
  /\ session[p].is_active
  /\ ~checked[p]
  /\ shouldSendReminder(p) => Len(rp_session_messages) < MaxMessages
  /\ checked' = [checked EXCEPT ![p] = TRUE]
  /\ IF shouldSendReminder(p)
       THEN sendInactivityReminder(p)
       ELSE UNCHANGED <<rp_session_messages, rp_sessions, sessPending,
                        inactivityReminder, reminderTimers>>
  /\ UNCHANGED <<now, rp_session_reads, page, session, isPublicView, nextMsg>>
  /\ UNCHANGED <<viewerVars, dmVars, dbVars>>

\* The 10-minute timeout of a reminder: setInactivityReminder(null).
bannerTimeout(p) ==
  /\ UNCHANGED ops
  /\ page[p]
  /\ now \in reminderTimers[p]
  /\ reminderTimers' = [reminderTimers EXCEPT ![p] = reminderTimers[p] \ {now}]
  /\ inactivityReminder' = [inactivityReminder EXCEPT ![p] = FALSE]
  /\ checked' = [checked EXCEPT ![p] = FALSE]
  /\ UNCHANGED <<now, rp_sessions, rp_session_messages, rp_session_reads, page,
                 session, isPublicView, nextMsg, sessPending>>
  /\ UNCHANGED <<viewerVars, dmVars, dbVars>>

\* ---------------------------------------- the DM thread and the inbox pages
\* The DM thread of user_a and user_b, from which the session was started.
InitDm ==
  /\ dm_messages = <<>>
  /\ dm_thread_reads = [u \in Users |-> None]
  /\ dmPage = [u \in Users |-> FALSE]
  /\ dmNext = [u \in Users |-> 1]
  /\ sessions_unread_count = [u \in Users |-> 0]
  /\ threads_unread_count = [u \in Users |-> 0]

\* otherUserId = user_a === me ? user_b : user_a
otherUserId(me) == IF user_a = me THEN user_b ELSE user_a

\* select count ... .eq("sender_id", sender) [.gt("created_at", after)]
RECURSIVE CountRows(_, _, _, _)
CountRows(msgs, sender, gt, after) ==
  IF msgs = <<>> THEN 0
  ELSE (IF /\ Head(msgs).sender_id = sender
           /\ (gt => Head(msgs).created_at > after)
          THEN 1 ELSE 0) + CountRows(Tail(msgs), sender, gt, after)

\* The count with .gte in place of .gt on created_at.
unreadCountGte(msgs, me, last_read_at) ==
  IF last_read_at # None
    THEN CountRows(msgs, otherUserId(me), TRUE, last_read_at - 1)
    ELSE CountRows(msgs, otherUserId(me), FALSE, None)

\* unreadCount of the inbox pages: with a read record, the other user's
\* messages with created_at > last_read_at; without one, all of the other
\* user's messages.
unreadCount(msgs, me, last_read_at) ==
  IF last_read_at # None
    THEN CountRows(msgs, otherUserId(me), TRUE, last_read_at)
    ELSE CountRows(msgs, otherUserId(me), FALSE, None)

\* DM thread page, load(): the messages are read and, when there are any,
\* marked as read; the channel is subscribed.
DmThread_load(u) ==
  /\ UNCHANGED <<viewerVars, sessionVarsNoOps, dbVars>>
  /\ ops < MaxOps /\ ops' = ops + 1
  /\ ~dmPage[u]
  /\ dmPage' = [dmPage EXCEPT ![u] = TRUE]
  /\ dmNext' = [dmNext EXCEPT ![u] = Len(dm_messages) + 1]
  /\ dm_thread_reads' = IF Len(dm_messages) > 0
                          THEN [dm_thread_reads EXCEPT ![u] = now]
                          ELSE dm_thread_reads
  /\ UNCHANGED <<dm_messages, sessions_unread_count, threads_unread_count>>

DmThread_leave(u) ==
  /\ UNCHANGED <<viewerVars, sessionVarsNoOps, dbVars>>
  /\ ops < MaxOps /\ ops' = ops + 1
  /\ dmPage[u]
  /\ dmPage' = [dmPage EXCEPT ![u] = FALSE]
  /\ dmNext' = [dmNext EXCEPT ![u] = 1]
  /\ UNCHANGED <<dm_messages, dm_thread_reads, sessions_unread_count,
                 threads_unread_count>>

\* DM thread page, send(): the message is inserted and the sender's read
\* record is set.
DmThread_send(u) ==
  /\ UNCHANGED <<viewerVars, sessionVarsNoOps, dbVars>>
  /\ ops < MaxOps /\ ops' = ops + 1
  /\ dmPage[u]
  /\ Len(dm_messages) < MaxMessages
  /\ dm_messages' = Append(dm_messages, [sender_id |-> u, created_at |-> now])
  /\ dm_thread_reads' = [dm_thread_reads EXCEPT ![u] = now]
  /\ UNCHANGED <<dmPage, dmNext, sessions_unread_count, threads_unread_count>>

\* DM thread page, the handler of an INSERT on dm_messages: the message is
\* appended to the list; the read upsert that follows is guarded by `userId`,
\* a variable of load() that is not in scope in the handler, so the handler
\* stops there with a ReferenceError and dm_thread_reads is not written.
DmThread_messageEvent(u) ==
  /\ UNCHANGED <<viewerVars, sessionVarsNoOps, dbVars>>
  /\ dmPage[u]
  /\ dmNext[u] <= Len(dm_messages)
  /\ dmNext' = [dmNext EXCEPT ![u] = dmNext[u] + 1]
  /\ UNCHANGED <<ops, dm_messages, dm_thread_reads, dmPage,
                 sessions_unread_count, threads_unread_count>>

\* SessionsPage, load(): the unread count of the session is computed.
SessionsPage_load(u) ==
  /\ UNCHANGED <<viewerVars, sessionVarsNoOps, dbVars>>
  /\ sessions_unread_count' = [sessions_unread_count EXCEPT
        ![u] = unreadCount(rp_session_messages, u, rp_session_reads[u])]
  /\ UNCHANGED <<ops, dm_messages, dm_thread_reads, dmPage, dmNext,
                 threads_unread_count>>

\* DmInboxPage, load(): the unread count of the thread is computed.
DmInboxPage_load(u) ==
  /\ UNCHANGED <<viewerVars, sessionVarsNoOps, dbVars>>
  /\ threads_unread_count' = [threads_unread_count EXCEPT
        ![u] = unreadCount(dm_messages, u, dm_thread_reads[u])]
  /\ UNCHANGED <<ops, dm_messages, dm_thread_reads, dmPage, dmNext,
                 sessions_unread_count>>


\* A minute passes.  Events are handled and timers fire well within a minute.
SessionQuiet ==
  \A p \in Users :
    page[p] => /\ nextMsg[p] > Len(rp_session_messages)
               /\ ~sessPending[p]
               /\ now \notin reminderTimers[p]
               /\ session[p].is_active => checked[p]

DmQuiet == \A u \in Users : dmPage[u] => dmNext[u] > Len(dm_messages)

Tick(limit) ==
  /\ UNCHANGED ops
  /\ now < limit
  /\ SessionQuiet /\ DmQuiet
  /\ now' = now + 1
  /\ checked' = [p \in Users |-> FALSE]
  /\ UNCHANGED <<rp_sessions, rp_session_messages, rp_session_reads, page,
                 session, isPublicView, nextMsg, sessPending, inactivityReminder,
                 reminderTimers>>
  /\ UNCHANGED <<viewerVars, dmVars, dbVars>>

NextSession ==
  \/ \E p \in Users : load(p)
  \/ \E p \in Users : leave(p)
  \/ \E p \in Users, type \in {"ooc", "narration"} : send(p, type)
  \/ \E p \in Users : messageEvent(p)
  \/ \E p \in Users : sessionEvent(p)
  \/ \E p \in Users : toggleSessionActive(p)
  \/ \E p \in Users : closeSession(p)
  \/ \E p \in Users : checkInactivity(p)
  \/ \E p \in Users : bannerTimeout(p)
  \/ Tick(MaxTime)

\* ------------------------------------------------------------- openDmWith
\* A client of the API: a signed-in user, or a browser that is not signed in.
NoUser == 0
Clients == Users \cup {NoUser}

IdleCall == [pc |-> "idle", otherUserId |-> NoUser, id |-> 0]

\* dm_threads holds the thread of user_a and user_b, in which the session
\* was started.  Rows are kept in the order of created_at; a row's id is its
\* position.
InitThreads ==
  /\ dm_threads = <<[user_a |-> user_a, user_b |-> user_b]>>
  /\ dmCall = [c \in Clients |-> IdleCall]

\* .or(and(user_a.eq.me,user_b.eq.other),and(user_a.eq.other,user_b.eq.me))
existing(me, other) ==
  {i \in 1..Len(dm_threads) :
     \/ dm_threads[i].user_a = me /\ dm_threads[i].user_b = other
     \/ dm_threads[i].user_a = other /\ dm_threads[i].user_b = me}

\* .order("created_at", {ascending: false}).limit(1)
newest(ids) == CHOOSE i \in ids : \A j \in ids : j <= i

\* openDmWith up to the answer of its select: without a signed-in user it
\* throws "Not authenticated"; with an existing thread it returns the newest;
\* otherwise it goes on to the insert.
openDmWith(c, other) ==
  /\ dmCall[c].pc = "idle"
  /\ dmCall' = [dmCall EXCEPT ![c] =
       IF c = NoUser
         THEN [pc |-> "Not authenticated", otherUserId |-> other, id |-> 0]
       ELSE IF existing(c, other) # {}
         THEN [pc |-> "returned", otherUserId |-> other,
               id |-> newest(existing(c, other))]
       ELSE [pc |-> "insert", otherUserId |-> other, id |-> 0]]
  /\ UNCHANGED dm_threads
  /\ UNCHANGED <<viewerVars, sessionVars, dmVars, watchVars, policyVars>>

\* openDmWith, the insert and the return of the new row's id.
openDmWith_insert(c) ==
  /\ dmCall[c].pc = "insert"
  /\ Len(dm_threads) < MaxThreads
  /\ dm_threads' = Append(dm_threads,
                          [user_a |-> c, user_b |-> dmCall[c].otherUserId])
  /\ dmCall' = [dmCall EXCEPT ![c].pc = "returned",
                              ![c].id = Len(dm_threads) + 1]
  /\ UNCHANGED <<viewerVars, sessionVars, dmVars, watchVars, policyVars>>

\* The caller has taken the result; the client may call again.
openDmWith_done(c) ==
  /\ dmCall[c].pc \in {"returned", "Not authenticated"}
  /\ dmCall' = [dmCall EXCEPT ![c] = IdleCall]
  /\ UNCHANGED dm_threads
  /\ UNCHANGED <<viewerVars, sessionVars, dmVars, watchVars, policyVars>>

NextThreads ==
  \/ \E c \in Clients : \E other \in Users \ {c} : openDmWith(c, other)
  \/ \E c \in Clients : openDmWith_insert(c)
  \/ \E c \in Clients : openDmWith_done(c)

\* ------------------------------------------------------ Sessions to Watch
InitWatch ==
  /\ other_sessions = <<>>
  /\ watchSessions = [u \in Users |-> <<>>]

\* The rows of rp_sessions: the session of the session pages (id 0) and the
\* sessions started since (id = position in other_sessions).
AllSessions ==
  {[id |-> 0, user_a |-> user_a, user_b |-> user_b,
    status |-> rp_sessions.status, is_active |-> rp_sessions.is_active,
    is_public |-> is_public]}
  \cup {[id |-> i, user_a |-> other_sessions[i].user_a,
         user_b |-> other_sessions[i].user_b,
         status |-> other_sessions[i].status,
         is_active |-> other_sessions[i].is_active,
         is_public |-> other_sessions[i].is_public] :
          i \in 1..Len(other_sessions)}

\* CONSTRAINT unique_active_session UNIQUE (user_a, user_b, status)
unique_active_session(a, b, status) ==
  \A s \in AllSessions : ~(s.user_a = a /\ s.user_b = b /\ s.status = status)

\* The rows a SELECT by uid returns: RLS "rp_sessions_select_participants"
\* or "Anyone can view public sessions".
rp_sessions_select(uid) ==
  {s \in AllSessions : s.is_public \/ uid = s.user_a \/ uid = s.user_b}

\* StartSessionModal.handleCreate: insert the session with the signed-in
\* user as user_a, then set name, style and is_public.
handleCreate(me, other, isPublic) ==
  /\ ops < MaxOps /\ ops' = ops + 1
  /\ Len(other_sessions) < MaxSessions
  /\ unique_active_session(me, other, "active")
  /\ other_sessions' = Append(other_sessions,
       [user_a |-> me, user_b |-> other, status |-> "active",
        is_active |-> TRUE, is_public |-> isPublic])
  /\ UNCHANGED watchSessions
  /\ UNCHANGED <<viewerVars, sessionVarsNoOps, dmVars, threadVars, policyVars>>

\* closeSession on the page of another session, by one of its participants.
closeSessionOf(i, u) ==
  /\ ops < MaxOps /\ ops' = ops + 1
  /\ i <= Len(other_sessions)
  /\ u \in {other_sessions[i].user_a, other_sessions[i].user_b}
  /\ other_sessions[i].status # "closed"
  /\ unique_active_session(other_sessions[i].user_a,
                           other_sessions[i].user_b, "closed")
  /\ other_sessions' = [other_sessions EXCEPT ![i].status = "closed",
                                              ![i].is_active = FALSE]
  /\ UNCHANGED watchSessions
  /\ UNCHANGED <<viewerVars, sessionVarsNoOps, dmVars, threadVars, policyVars>>

\* toggleSessionActive on the page of another session.
toggleSessionActiveOf(i, u) ==
  /\ ops < MaxOps /\ ops' = ops + 1
  /\ i <= Len(other_sessions)
  /\ u \in {other_sessions[i].user_a, other_sessions[i].user_b}
  /\ other_sessions[i].status # "closed"
  /\ other_sessions' =
       [other_sessions EXCEPT ![i].is_active = ~other_sessions[i].is_active]
  /\ UNCHANGED watchSessions
  /\ UNCHANGED <<viewerVars, sessionVarsNoOps, dmVars, threadVars, policyVars>>

\* The public/private button on the page of another session.
togglePublicOf(i, u) ==
  /\ ops < MaxOps /\ ops' = ops + 1
  /\ i <= Len(other_sessions)
  /\ u \in {other_sessions[i].user_a, other_sessions[i].user_b}
  /\ other_sessions[i].status # "closed"
  /\ other_sessions' =
       [other_sessions EXCEPT ![i].is_public = ~other_sessions[i].is_public]
  /\ UNCHANGED watchSessions
  /\ UNCHANGED <<viewerVars, sessionVarsNoOps, dmVars, threadVars, policyVars>>

\* How the queries of loadWatchSessions end: the test query fails; the query
\* with .eq("is_public", true) succeeds; it fails and the query without
\* filter succeeds; both fail.
Outcomes == {"testError", "ok", "error1", "error2"}

\* publicSessions: the answer of .eq("is_public", true), or the client-side
\* filter over the answer of the query without filter.
publicSessions(currentUserId, outcome) ==
  IF outcome = "ok"
    THEN {s \in rp_sessions_select(currentUserId) : s.is_public = TRUE}
  ELSE IF outcome = "error1"
    THEN {s \in rp_sessions_select(currentUserId) : s.is_public = TRUE}
  ELSE {}

\* The filter without the test for the user's own sessions.
filteredSessionsWithOwn(rows, currentUserId) ==
  {s \in rows : s.status # "closed"}

\* filteredSessions: closed sessions and the user's own sessions are dropped.
filteredSessions(rows, currentUserId) ==
  {s \in rows :
     /\ s.status # "closed"
     /\ ~(s.user_a = currentUserId \/ s.user_b = currentUserId)}

\* sessionsWithDetails keeps id, is_active, user_a and user_b of each row.
sessionsWithDetails(s) ==
  [id |-> s.id, is_active |-> s.is_active,
   user_a |-> s.user_a, user_b |-> s.user_b]

\* The sort puts active sessions first.  (The order of the rows in the answer
\* and last_message_at decide the rest; every such order is allowed here.)
activeFirst(list) ==
  \A i \in 1..Len(list) : \A j \in 1..Len(list) :
     (i < j) => ~(~list[i].is_active /\ list[j].is_active)

\* loadWatchSessions(currentUserId), to its setWatchSessions.
loadWatchSessions(currentUserId, outcome) ==
  /\ ops < MaxOps /\ ops' = ops + 1
  /\ LET shown == filteredSessions(publicSessions(currentUserId, outcome),
                                   currentUserId)
         n == Cardinality(shown)
     IN  \E order \in [1..n -> shown] :
           /\ \A i \in 1..n : \A j \in 1..n : (i # j) => order[i] # order[j]
           /\ activeFirst(order)
           /\ watchSessions' = [watchSessions EXCEPT ![currentUserId] =
                                  [k \in 1..n |-> sessionsWithDetails(order[k])]]
  /\ UNCHANGED other_sessions
  /\ UNCHANGED <<viewerVars, sessionVarsNoOps, dmVars, threadVars, policyVars>>

NextWatch ==
  \/ \E me \in Users : \E other \in Users \ {me} : \E isPublic \in BOOLEAN :
       handleCreate(me, other, isPublic)
  \/ \E i \in 1..MaxSessions : \E u \in Users : closeSessionOf(i, u)
  \/ \E i \in 1..MaxSessions : \E u \in Users :
       toggleSessionActiveOf(i, u)
  \/ \E i \in 1..MaxSessions : \E u \in Users : togglePublicOf(i, u)
  \/ \E u \in Users : \E outcome \in Outcomes : loadWatchSessions(u, outcome)

\* ------------------------------------------- requests made to the database
\* A row of other_messages holds session_id and sender_id, and inserted_by:
\* the user whose INSERT request created the row (never written afterwards).
InitPolicy == other_messages = <<>>

\* user_a and user_b of the session with the given id.
participantsOf(session_id) ==
  {other_sessions[session_id].user_a, other_sessions[session_id].user_b}

\* RLS "rp_session_messages_insert_sender" for a row of any session:
\* auth.uid() = sender_id and auth.uid() is user_a or user_b of session_id.
rp_session_messages_insert_check(uid, session_id, sender_id) ==
  /\ uid = sender_id
  /\ session_id \in 1..Len(other_sessions)
  /\ uid \in participantsOf(session_id)

\* RLS "rp_session_messages_update_sender": USING (auth.uid() = sender_id)
\* on the old row, WITH CHECK (auth.uid() = sender_id) on the new one.
rp_session_messages_update_sender(uid, old_sender_id, new_sender_id) ==
  uid = old_sender_id /\ uid = new_sender_id

\* RLS "rp_session_messages_select_participants": a participant of the
\* session, or anyone when the session is public.
rp_session_messages_select_participants(uid, session_id) ==
  /\ session_id \in 1..Len(other_sessions)
  /\ \/ uid # NoUser /\ uid \in participantsOf(session_id)
     \/ other_sessions[session_id].is_public

\* A client sends an INSERT into rp_session_messages; the row is stored when
\* the policy passes.
insertRequest(uid, session_id, sender_id) ==
  /\ Len(other_messages) < MaxRows
  /\ other_messages' =
       IF rp_session_messages_insert_check(uid, session_id, sender_id)
         THEN Append(other_messages,
                     [session_id |-> session_id, sender_id |-> sender_id,
                      inserted_by |-> uid])
         ELSE other_messages
  /\ UNCHANGED <<viewerVars, sessionVars, dmVars, threadVars, watchVars>>

\* A client sends an UPDATE of row k of rp_session_messages (selected by its
\* id) that sets session_id and sender_id.  The row is written when the
\* UPDATE policy passes, the client may read the row before and after (the
\* SELECT policy applies to an UPDATE that reads the row), and session_id
\* names a session (foreign key).
updateRequest(uid, k, session_id, sender_id) ==
  /\ k <= Len(other_messages)
  /\ other_messages' =
       IF /\ rp_session_messages_update_sender(uid, other_messages[k].sender_id,
                                               sender_id)
          /\ rp_session_messages_select_participants(uid,
                                               other_messages[k].session_id)
          /\ rp_session_messages_select_participants(uid, session_id)
         THEN [other_messages EXCEPT ![k].session_id = session_id,
                                     ![k].sender_id = sender_id]
         ELSE other_messages
  /\ UNCHANGED <<viewerVars, sessionVars, dmVars, threadVars, watchVars>>

\* RLS "rp_sessions_update_participants": auth.uid() is user_a or user_b of
\* the old row and of the new row.
rp_sessions_update_check(uid, old_row, new_row) ==
  /\ uid \in {old_row.user_a, old_row.user_b}
  /\ uid \in {new_row.user_a, new_row.user_b}

\* A client sends an UPDATE of session i of rp_sessions that sets user_a and
\* user_b.  The row is written when the policy passes and no other row has
\* the same (user_a, user_b, status).
updateSessionRequest(uid, i, a, b) ==
  /\ i <= Len(other_sessions)
  /\ LET new_row == [other_sessions[i] EXCEPT !.user_a = a, !.user_b = b]
     IN  other_sessions' =
           IF /\ rp_sessions_update_check(uid, other_sessions[i], new_row)
              /\ \A s \in AllSessions :
                   (s.id # i) =>
                     ~(s.user_a = a /\ s.user_b = b /\ s.status = new_row.status)
             THEN [other_sessions EXCEPT ![i] = new_row]
             ELSE other_sessions
  /\ UNCHANGED watchSessions
  /\ UNCHANGED <<viewerVars, sessionVars, dmVars, threadVars, policyVars>>

NextPolicy ==
  \/ \E me \in Users : \E other \in Users \ {me} : \E isPublic \in BOOLEAN :
       handleCreate(me, other, isPublic)
  \/ \E uid \in Clients : \E session_id \in 1..MaxSessions :
       \E sender_id \in Users : insertRequest(uid, session_id, sender_id)
  \/ \E uid \in Clients : \E k \in 1..MaxRows :
       \E session_id \in 1..MaxSessions : \E sender_id \in Users :
         updateRequest(uid, k, session_id, sender_id)
  \/ \E uid \in Clients : \E i \in 1..MaxSessions :
       \E a \in Users : \E b \in Users : updateSessionRequest(uid, i, a, b)

Init ==
  InitViewers /\ InitSession /\ InitDm /\ InitThreads /\ InitWatch /\ InitPolicy

SpecViewers == Init /\ [][NextViewers]_vars

SpecSession == Init /\ [][NextSession]_vars

\* The first minutes of the session and the thread: no inactivity reminder
\* is due yet, no banner timeout either.
NextReads ==
  \/ \E p \in Users : load(p)
  \/ \E p \in Users : leave(p)
  \/ \E p \in Users, type \in {"ooc", "narration"} : send(p, type)
  \/ \E p \in Users : messageEvent(p)
  \/ \E p \in Users : sessionEvent(p)
  \/ \E p \in Users : toggleSessionActive(p)
  \/ \E p \in Users : closeSession(p)
  \/ \E p \in Users : checkInactivity(p)
  \/ Tick(MaxReadTime)
  \/ \E u \in Participants : DmThread_load(u)
  \/ \E u \in Participants : DmThread_leave(u)
  \/ \E u \in Participants : DmThread_send(u)
  \/ \E u \in Participants : DmThread_messageEvent(u)
  \/ \E u \in Participants : SessionsPage_load(u)
  \/ \E u \in Participants : DmInboxPage_load(u)

SpecReads == Init /\ [][NextReads]_vars

SpecThreads == Init /\ [][NextThreads]_vars

SpecWatch == Init /\ [][NextWatch]_vars

SpecPolicy == Init /\ [][NextPolicy]_vars

\* ------------------------------------------------------------ claims C1-C3
\* C1: for the session, max_viewers only increases: no step of a viewer join,
\* heartbeat or leave stores a max_viewers lower than the one stored before it.
C1_MaxViewersNeverDecreases == [][max_viewers' >= max_viewers]_vars

\* C2: whenever a viewer join or heartbeat has been fully processed (its
\* statement and trigger have committed), max_viewers is at least the number
\* of viewer rows that exist for the session at that moment.
C2_MaxViewersIsPeak ==
  [][\A u \in Users :
       (vtx[u].pc = "update" /\ vtx'[u].pc = "idle")
         => max_viewers' >= Cardinality(rp_session_viewers')]_vars

\* C3: from the completion of a user's join upsert until the user leaves the
\* page, the user's viewer row exists and its last_seen is at most 2 minutes
\* old.
C3_ViewerTrackedWhileOnPage ==
  \A u \in Users :
    joined[u] => (u \in rp_session_viewers /\ last_seen_age[u] <= StaleTicks)

\* ------------------------------------------------------------ claims C4-C6
\* The messages in a page's `messages` state: those loaded and those whose
\* INSERT event the page has handled.
LocalMessages(p) == 1..(nextMsg[p] - 1)

\* The list the page renders: a public view filters on narration.
messagesShownAll(p) == LocalMessages(p)

messagesShown(p) ==
  IF isPublicView[p]
    THEN {i \in LocalMessages(p) :
            rp_session_messages[i].message_type = "narration"}
    ELSE LocalMessages(p)

C5_NoMessageAfterClose ==
  [][rp_sessions.status = "closed"
       => Len(rp_session_messages') = Len(rp_session_messages)]_vars

\* C6: no narration message is inserted while the session row has
\* is_active = false.
C6_NoNarrationWhilePaused ==
  [][(/\ Len(rp_session_messages') > Len(rp_session_messages)
      /\ rp_session_messages'[Len(rp_session_messages')].message_type
           = "narration")
       => rp_sessions.is_active]_vars

\* ----------------------------------------------------------- claims C9-C10
LastMessage == rp_session_messages[Len(rp_session_messages)]

C10_OneReminderPerHour ==
  \A i \in 1..(Len(rp_session_messages) - 1) :
    (/\ rp_session_messages[i].body = "reminder"
     /\ rp_session_messages[i + 1].body = "reminder")
      => rp_session_messages[i + 1].created_at
           - rp_session_messages[i].created_at > ReminderWindowMinutes

\* ------------------------------------------------------------ claims C7-C8
\* The messages of the other participant that user u has not read: all of
\* them without a read record, else those created after last_read_at.
UnreadOfOther(msgs, u, last_read_at) ==
  {i \in 1..Len(msgs) :
     /\ msgs[i].sender_id \in Participants \ {u}
     /\ (last_read_at # None => msgs[i].created_at > last_read_at)}

SessionUnread(u) == unreadCount(rp_session_messages, u, rp_session_reads[u])
ThreadUnread(u) == unreadCount(dm_messages, u, dm_thread_reads[u])

\* C8: while a participant has the session page or the DM thread page open
\* and the page has handled every arrival, the unread count is zero; and a
\* count of zero stays zero until the other user sends a further message.
C8_ReadWhileViewing ==
  /\ [](\A u \in Participants :
          /\ (page[u] /\ nextMsg[u] > Len(rp_session_messages))
               => SessionUnread(u) = 0
          /\ (dmPage[u] /\ dmNext[u] > Len(dm_messages))
               => ThreadUnread(u) = 0)
  /\ [][\A u \in Participants :
          /\ (SessionUnread(u) = 0 /\ SessionUnread(u)' # 0)
               => /\ Len(rp_session_messages') > Len(rp_session_messages)
                  /\ rp_session_messages'[Len(rp_session_messages')].sender_id
                       = otherUserId(u)
          /\ (ThreadUnread(u) = 0 /\ ThreadUnread(u)' # 0)
               => /\ Len(dm_messages') > Len(dm_messages)
                  /\ dm_messages'[Len(dm_messages')].sender_id
                       = otherUserId(u)]_vars

\* ---------------------------------------------------------------- claim C11
\* C11: a call of openDmWith by a signed-in user returns the newest thread
\* between the two users and inserts nothing when such a thread exists, and
\* inserts exactly one thread and returns its id only when none exists; a
\* call without a signed-in user ends with "Not authenticated" and inserts
\* nothing.
C11_OpenDmWithCreatesOrReuses ==
  [][\A c \in Clients :
       /\ (dmCall[c].pc # "returned" /\ dmCall'[c].pc = "returned") =>
            LET other == dmCall'[c].otherUserId
                ex == existing(c, other)
            IN  IF ex # {}
                  THEN /\ dm_threads' = dm_threads
                       /\ dmCall'[c].id = newest(ex)
                  ELSE /\ Len(dm_threads') = Len(dm_threads) + 1
                       /\ dmCall'[c].id = Len(dm_threads')
                       /\ {dm_threads'[Len(dm_threads')].user_a,
                           dm_threads'[Len(dm_threads')].user_b} = {c, other}
       /\ (c = NoUser /\ dmCall[c].pc = "idle" /\ dmCall'[c].pc # "idle") =>
            /\ dmCall'[c].pc = "Not authenticated"
            /\ dm_threads' = dm_threads
       /\ (c = NoUser) => dmCall'[c].pc \notin {"insert", "returned"}]_vars

\* ---------------------------------------------------------------- claim C12
\* The row of rp_sessions with the given id.
SessionRow(id) == CHOOSE s \in AllSessions : s.id = id

\* C12: every session that loadWatchSessions puts on a user's "Sessions to
\* Watch" list is, in the rows it read, public and not closed, and the user
\* is neither its user_a nor its user_b; no entry of a list shown names the
\* user as user_a or user_b.
C12_WatchListFiltered ==
  /\ [](\A u \in Users : \A k \in 1..Len(watchSessions[u]) :
          watchSessions[u][k].user_a # u /\ watchSessions[u][k].user_b # u)
  /\ [][\A u \in Users :
          (\E outcome \in Outcomes : loadWatchSessions(u, outcome)) =>
             \A k \in 1..Len(watchSessions'[u]) :
               LET e == watchSessions'[u][k]
               IN  /\ \E s \in AllSessions : s.id = e.id
                   /\ SessionRow(e.id).is_public
                   /\ SessionRow(e.id).status # "closed"
                   /\ SessionRow(e.id).user_a # u
                   /\ SessionRow(e.id).user_b # u
                   /\ e.user_a = SessionRow(e.id).user_a
                   /\ e.user_b = SessionRow(e.id).user_b]_vars

\* A list that shows a session while a closed public session and a public
\* session of the user's own, both left out, are in the table.
C12_Witness ==
  \E u \in Users :
    /\ Len(watchSessions[u]) > 0
    /\ \A k \in 1..Len(watchSessions[u]) :
         /\ SessionRow(watchSessions[u][k].id).is_public
         /\ SessionRow(watchSessions[u][k].id).status # "closed"
    /\ \E s \in AllSessions :
         /\ s.is_public /\ s.status = "closed" /\ s.user_a # u /\ s.user_b # u
         /\ \A k \in 1..Len(watchSessions[u]) : watchSessions[u][k].id # s.id
    /\ \E s \in AllSessions :
         /\ s.is_public /\ s.status # "closed" /\ u \in {s.user_a, s.user_b}
         /\ \A k \in 1..Len(watchSessions[u]) : watchSessions[u][k].id # s.id

\* ---------------------------------------------------------------- claim C13
\* C13: whatever requests clients send, every row of rp_session_messages was
\* inserted by user_a or user_b of the session it is in, and its sender_id is
\* the user who inserted it.
C13_RowsInsertedByParticipants ==
  /\ \A k \in 1..Len(other_messages) :
       /\ other_messages[k].inserted_by
            \in participantsOf(other_messages[k].session_id)
       /\ other_messages[k].sender_id = other_messages[k].inserted_by
  /\ \A k \in 1..Len(rp_session_messages) :
       rp_session_messages[k].sender_id \in Participants

====
